---- MODULE Spec2Model ----
(***************************************************************************)
(* CatWalk workflow core: Graph construction, Compiler.compile (depth-first *)
(* postorder, reversed once) and Runtime.run (sequential execution with a   *)
(* shared context), modelled from src/catwalk_core.py.                      *)
(***************************************************************************)
EXTENDS Integers, Sequences, FiniteSets, TLC

VARIABLES
    flowNodes,  \* the `nodes` argument of Graph(nodes, edges): node ids in declaration order
    flowEdges,  \* the `edges` argument of Graph(nodes, edges): edge objects in declaration order
    func,       \* the `func` attribute of every declared node
    pc,         \* position of the caller: new, construct_failed, constructed, compiling, compiled, ...
    error,      \* the exception that reached the caller, NoError when none
    attrs,      \* attribute names set on the Graph object
    nodes,      \* Graph.nodes: keys of the dict in insertion order
    edges,      \* Graph.edges
    adj,        \* Graph.adj: node id -> list of successor ids
    starts,     \* the list compile iterates: graph.get_start_nodes()
    startIdx,   \* position of compile's `for start in ...` loop
    visited,    \* compile's `visited` set
    order,      \* compile's `order` list (working list, reversed at the end)
    stack,      \* the active dfs() calls: <<[node, next]>>, innermost last
    seed,       \* the `ctx` argument of Runtime.run: the caller's dict, or not given
    aliased,    \* whether run's `ctx` is the caller's dict object itself
    ctx,        \* run's `ctx` dict
    runIdx,     \* position of run's `for node_id in self.order` loop
    inflight,   \* the callable run is awaiting, NoCall when none
    resolved,   \* history: node ids whose reference went through _resolve_func
    invoked,    \* history: node ids whose callable was called
    stored,     \* history: node ids whose result was written to ctx
    failPhase,  \* history: where the exception that ended run was raised
    returned,   \* the dict run returned
    executed,   \* history: node ids for which _execute was awaited
    completed,  \* history: node ids whose callable has ended (returned or raised)
    orphan,     \* the executor call still running in its thread after run was cancelled
    seedAtCall, \* history: the `ctx` argument as it was when run was called
    validation, \* outcome of validate_flow on the flow document: none, accepted, rejected
    firstOrder, \* the order an earlier compile of the same flow returned
    round,      \* 1 during the first construct-and-compile of the flow, 2 during a repeated one
    entry,      \* the entry point that handles the flow: none, cli, catwalk, server
    response,   \* what the entry point answered: an HTTP response or a process exit
    fileExists, \* whether the workflow file of the editing commands is on disk
    command     \* the last editing command of cli.py and how it ended

graphVars == <<flowNodes, flowEdges, func, attrs, nodes, edges, adj>>
compileVars == <<starts, startIdx, visited, order, stack>>
histVars == <<executed, completed, orphan, seedAtCall>>
entryVars == <<entry, response, fileExists, command>>
callerVars == <<validation, firstOrder, round, entryVars>>
runVars == <<seed, aliased, ctx, runIdx, inflight, resolved, invoked, stored,
             failPhase, returned, histVars>>

----------------------------------------------------------------------------
(* Python values *)

PyNone == "<None>"

Truthy(v) == v # PyNone /\ v # ""

\* Python's `a or b`
PyOr(a, b) == IF Truthy(a) THEN a ELSE b

\* an exception as the caller receives it: its type and the node id it carries
NoError == [type |-> "none", node |-> PyNone]

\* result values: None and integers
NoneValue == [tag |-> "None", val |-> 0]
PyInt(n) == [tag |-> "int", val |-> n]

EmptyDict == [k \in {} |-> NoneValue]

\* d[k] = v
DictSet(d, k, v) == [x \in DOMAIN d \cup {k} |-> IF x = k THEN v ELSE d[x]]

----------------------------------------------------------------------------
(* Inputs *)

MaxEdges == 2

Ids == {"A", "B", "C"}

\* An edge object: attributes it does not carry read as None through getattr(e, name, None)
EdgeST(s, t) == [source |-> s, target |-> t, from |-> PyNone, to |-> PyNone]
EdgeFT(s, t) == [source |-> PyNone, target |-> PyNone, from |-> s, to |-> t]

\* an edge that carries both namings, the two disagreeing
EdgeBoth(s, t) == [source |-> s, target |-> t, from |-> t, to |-> s]

EdgeUniverse ==
    {EdgeST(s, t) : s \in Ids, t \in Ids}
    \cup {EdgeFT(s, t) : s \in Ids, t \in Ids}
    \cup {EdgeBoth(p[1], p[2]) : p \in {q \in Ids \X Ids : q[1] # q[2]}}

SeqsUpTo(S, n) == UNION {[1..k -> S] : k \in 0..n}

IsInjective(s) == \A i, j \in 1..Len(s) : s[i] = s[j] => i = j

\* Node declarations with distinct ids (the dict of Graph.nodes is keyed by id)
NodeLists == {s \in SeqsUpTo(Ids, Cardinality(Ids)) : IsInjective(s)}

DiamondNodes == <<"start", "left", "right", "join">>
DiamondEdges == <<EdgeST("start", "left"), EdgeST("start", "right"),
                  EdgeST("left", "join"), EdgeST("right", "join")>>

ChainNodes == <<"A", "B", "C">>
ChainEdges == <<EdgeST("A", "B"), EdgeFT("B", "C")>>

\* a two-node cycle entered from a start node
LoopNodes == <<"A", "B", "C">>
LoopEdges == <<EdgeST("A", "B"), EdgeST("B", "C"), EdgeST("C", "B")>>

\* a duplicate edge, a self-loop and a two-node cycle, all reached from A
TangleNodes == <<"A", "B", "C">>
TangleEdges == <<EdgeST("A", "B"), EdgeST("A", "B"), EdgeST("B", "B"),
                 EdgeST("B", "C"), EdgeFT("C", "B")>>

FixtureFlows == {<<DiamondNodes, DiamondEdges>>, <<ChainNodes, ChainEdges>>,
                 <<LoopNodes, LoopEdges>>, <<TangleNodes, TangleEdges>>}

\* order [A, B]
PairNodes == <<"A", "B">>
PairEdges == <<EdgeST("A", "B")>>

\* the flows that are run
RunFlows == {<<PairNodes, PairEdges>>, <<ChainNodes, ChainEdges>>,
             <<LoopNodes, LoopEdges>>, <<PairNodes, <<>> >>,
             <<DiamondNodes, DiamondEdges>>}

\* the `ctx` argument of run: not given, an empty dict, or a dict with entries
NoSeed == [given |-> FALSE, dict |-> EmptyDict]
Seeds == {NoSeed,
          [given |-> TRUE, dict |-> EmptyDict],
          [given |-> TRUE, dict |-> DictSet(DictSet(EmptyDict, "A", PyInt(7)), "x", PyInt(7))]}

----------------------------------------------------------------------------
(* Graph *)

\* Graph._edge_endpoints
EdgeEndpoints(e) == <<PyOr(e.source, e.from), PyOr(e.target, e.to)>>

InNodes(keys, id) == \E i \in 1..Len(keys) : keys[i] = id

RECURSIVE AdjLoop(_, _, _, _)
\* the `for e in self.edges` loop of Graph._build_adjacency, from edge i on
AdjLoop(keys, es, i, a) ==
    IF i > Len(es) THEN [ok |-> TRUE, adj |-> a]
    ELSE LET ep == EdgeEndpoints(es[i])
         IN IF ~InNodes(keys, ep[1]) \/ ~InNodes(keys, ep[2])
            THEN [ok |-> FALSE, adj |-> <<>>]
            ELSE AdjLoop(keys, es, i + 1, [a EXCEPT ![ep[1]] = Append(@, ep[2])])

\* a plausible bug: an invalid edge is skipped instead of raising
BuildAdjacencySkipInvalid(keys, es) ==
    LET valid == SelectSeq(es, LAMBDA e : InNodes(keys, EdgeEndpoints(e)[1])
                                          /\ InNodes(keys, EdgeEndpoints(e)[2]))
    IN AdjLoop(keys, valid, 1, [n \in {keys[i] : i \in 1..Len(keys)} |-> <<>>])

\* Graph._build_adjacency
BuildAdjacency(keys, es) ==
    AdjLoop(keys, es, 1, [n \in {keys[i] : i \in 1..Len(keys)} |-> <<>>])

\* a plausible bug: every node is taken as a start node
GetStartNodesAll(keys, es) == keys

\* a plausible bug: only the `target` attribute is read, `to` is forgotten
GetStartNodesTargetOnly(keys, es) ==
    LET targets == {es[i].target : i \in 1..Len(es)}
    IN SelectSeq(keys, LAMBDA nid : nid \notin targets)

\* Graph.get_start_nodes
GetStartNodes(keys, es) ==
    LET targets == {PyOr(es[i].target, es[i].to) : i \in 1..Len(es)}
    IN SelectSeq(keys, LAMBDA nid : nid \notin targets)

\* Graph.__init__
Construct ==
    /\ pc = "new"
    /\ nodes' = flowNodes
    /\ edges' = flowEdges
    /\ LET r == BuildAdjacency(flowNodes, flowEdges)
       IN IF r.ok
          THEN /\ adj' = r.adj
               /\ attrs' = {"nodes", "edges", "adj"}
               /\ pc' = "constructed"
               /\ error' = error
          ELSE /\ adj' = adj
               /\ attrs' = {"nodes", "edges"}
               /\ pc' = "construct_failed"
               /\ error' = [type |-> "ValueError", node |-> PyNone]
    /\ UNCHANGED <<flowNodes, flowEdges, func>>
    /\ UNCHANGED <<compileVars, runVars, callerVars>>

----------------------------------------------------------------------------
(* Compiler *)

\* graph.adj.get(node_id, [])
AdjGet(n) == IF n \in DOMAIN adj THEN adj[n] ELSE <<>>

RECURSIVE ReverseFrom(_, _)
ReverseFrom(s, i) == IF i = 0 THEN <<>> ELSE <<s[i]>> \o ReverseFrom(s, i - 1)

\* a plausible bug: the final reversal is forgotten
NotReversed(s) == s

\* order.reverse()
Reversed(s) == ReverseFrom(s, Len(s))

\* a plausible bug: the visited check is missing, every call descends
DfsCallAlwaysDescends(n, callers) ==
    /\ visited' = visited \cup {n}
    /\ stack' = Append(callers, [node |-> n, next |-> 1])

\* the head of dfs(node_id), called with `callers` active: return at once when
\* visited, else mark the node and open its frame
DfsCall(n, callers) ==
    IF n \in visited
    THEN /\ visited' = visited
         /\ stack' = callers
    ELSE /\ visited' = visited \cup {n}
         /\ stack' = Append(callers, [node |-> n, next |-> 1])

\* a plausible bug: `visited` outlives the call (an attribute or a mutable default)
CompileBeginKeepsVisited ==
    /\ pc = "constructed"
    /\ pc' = "compiling"
    /\ visited' = visited
    /\ order' = <<>>
    /\ stack' = <<>>
    /\ starts' = GetStartNodes(nodes, edges)
    /\ startIdx' = 1
    /\ UNCHANGED <<graphVars, callerVars, runVars, error>>

\* Compiler.compile up to the first loop iteration
CompileBegin ==
    /\ pc = "constructed"
    /\ pc' = "compiling"
    /\ visited' = {}
    /\ order' = <<>>
    /\ stack' = <<>>
    /\ starts' = GetStartNodes(nodes, edges)
    /\ startIdx' = 1
    /\ UNCHANGED <<graphVars, callerVars, runVars, error>>

\* `for start in graph.get_start_nodes(): dfs(start)`
DfsStart ==
    /\ pc = "compiling"
    /\ stack = <<>>
    /\ startIdx <= Len(starts)
    /\ DfsCall(starts[startIdx], stack)
    /\ startIdx' = startIdx + 1
    /\ UNCHANGED <<graphVars, callerVars, runVars, error, pc, starts, order>>

\* a plausible bug: the successors are consumed from the adjacency list
\* (`while graph.adj[node_id]: dfs(graph.adj[node_id].pop(0))`)
DfsDescendConsumes ==
    /\ pc = "compiling"
    /\ stack # <<>>
    /\ LET top == stack[Len(stack)]
           succ == AdjGet(top.node)
       IN /\ succ # <<>>
          /\ DfsCall(succ[1], stack)
          /\ adj' = [adj EXCEPT ![top.node] = Tail(succ)]
    /\ UNCHANGED <<flowNodes, flowEdges, func, attrs, nodes, edges, callerVars, runVars,
                   error, pc, starts, startIdx, order>>

\* `for nxt in graph.adj.get(node_id, []): dfs(nxt)`
DfsDescend ==
    /\ pc = "compiling"
    /\ stack # <<>>
    /\ LET top == stack[Len(stack)]
           succ == AdjGet(top.node)
       IN /\ top.next <= Len(succ)
          /\ DfsCall(succ[top.next], [stack EXCEPT ![Len(stack)].next = top.next + 1])
    /\ UNCHANGED <<graphVars, callerVars, runVars, error, pc, starts, startIdx, order>>

\* `order.append(node_id)` and the return of dfs
DfsReturn ==
    /\ pc = "compiling"
    /\ stack # <<>>
    /\ LET top == stack[Len(stack)]
       IN /\ top.next > Len(AdjGet(top.node))
          /\ order' = Append(order, top.node)
          /\ stack' = SubSeq(stack, 1, Len(stack) - 1)
    /\ UNCHANGED <<graphVars, callerVars, runVars, error, pc, starts, startIdx, visited>>

\* `order.reverse(); return order`
CompileFinish ==
    /\ pc = "compiling"
    /\ stack = <<>>
    /\ startIdx > Len(starts)
    /\ order' = Reversed(order)
    /\ pc' = "compiled"
    /\ UNCHANGED <<graphVars, callerVars, runVars, error, starts, startIdx, visited, stack>>

----------------------------------------------------------------------------
(* Runtime *)

\* A node's `func` attribute. A string is kept as what the code reads of it:
\* whether its stripped text starts with "lambda", and its split(".") parts.
NoFunc == [isStr |-> FALSE, lambda |-> FALSE, parts |-> <<>>]
StrRef(parts) == [isStr |-> TRUE, lambda |-> FALSE, parts |-> parts]
LambdaRef(text) == [isStr |-> TRUE, lambda |-> TRUE, parts |-> <<text>>]

EmptyRef == StrRef(<<"">>)                        \* ""
ConstRef == LambdaRef("lambda ctx: 1")
ReadRef == LambdaRef("lambda ctx: ctx['A'] + 1")
BareRef == StrRef(<<"missing_name">>)             \* a name catwalk_core's globals lack
NoModuleRef == StrRef(<<"nomod", "fn">>)          \* "nomod.fn", no such module
NoSymbolRef == StrRef(<<"tasks", "absent">>)      \* "tasks.absent", no such attribute
AsyncRef == StrRef(<<"tasks", "fetch">>)          \* "tasks.fetch", async def fetch(ctx): await asyncio.sleep(0); return ctx['A'] + 1

FuncRefs == {NoFunc, EmptyRef, ConstRef, ReadRef, BareRef, NoModuleRef,
             NoSymbolRef, AsyncRef}

\* the importable modules of the run and the callables they define
Modules == {<<"tasks">>}
ModuleAttrs(m) == IF m = <<"tasks">> THEN {"fetch"} ELSE {}

\* a callable: how inspect.iscoroutinefunction answers for it, and its code
NoCall == [kind |-> "none", body |-> ""]
SyncCall(body) == [kind |-> "sync", body |-> body]
AsyncCall(body) == [kind |-> "async", body |-> body]

Raised(type) == [ok |-> FALSE, call |-> NoCall, type |-> type]
Resolved(call) == [ok |-> TRUE, call |-> call, type |-> "none"]

\* a plausible bug: a bare name that globals() lacks raises
ResolveFuncStrict(ref) ==
    IF ref.lambda THEN Resolved(SyncCall(ref.parts[1]))
    ELSE IF Len(ref.parts) = 1 THEN Raised("NameError")
    ELSE LET modName == SubSeq(ref.parts, 1, Len(ref.parts) - 1)
             fnName == ref.parts[Len(ref.parts)]
         IN IF modName \notin Modules THEN Raised("ModuleNotFoundError")
            ELSE IF fnName \notin ModuleAttrs(modName) THEN Raised("AttributeError")
            ELSE Resolved(AsyncCall("return ctx['A'] + 1"))

\* Runtime._resolve_func
ResolveFunc(ref) ==
    IF ref.lambda THEN Resolved(SyncCall(ref.parts[1]))
    ELSE IF Len(ref.parts) = 1 THEN Resolved(NoCall)
    ELSE LET modName == SubSeq(ref.parts, 1, Len(ref.parts) - 1)
             fnName == ref.parts[Len(ref.parts)]
         IN IF modName \notin Modules THEN Raised("ModuleNotFoundError")
            ELSE IF fnName \notin ModuleAttrs(modName) THEN Raised("AttributeError")
            ELSE Resolved(AsyncCall("return ctx['A'] + 1"))

\* `func = getattr(node, "func", None)` and `if isinstance(func, str): func = self._resolve_func(func)`
NodeCallable(ref) == IF ref.isStr THEN ResolveFunc(ref) ELSE Resolved(NoCall)

Returns(v) == [ok |-> TRUE, value |-> v, type |-> "none"]
Raises(type) == [ok |-> FALSE, value |-> NoneValue, type |-> type]

\* what func(ctx) does, for the callables of FuncRefs
Call(body, c) ==
    IF body = "lambda ctx: 1" THEN Returns(PyInt(1))
    ELSE IF "A" \notin DOMAIN c THEN Raises("KeyError")
    ELSE IF c["A"].tag # "int" THEN Raises("TypeError")
    ELSE Returns(PyInt(c["A"].val + 1))

\* a plausible bug: a None result is not written
StoreResultSkipNone(c, id, v) == IF v = NoneValue THEN c ELSE DictSet(c, id, v)

\* a plausible bug: the result replaces the context instead of being added to it
StoreResultReplaces(c, id, v) == DictSet(EmptyDict, id, v)

\* `ctx[node_id] = result`
StoreResult(c, id, v) == DictSet(c, id, v)

\* the caller's dict after a write to ctx: the same object when run adopted it
SeedAfter(c) == IF aliased THEN [seed EXCEPT !.dict = c] ELSE seed

\* a plausible bug: run always starts from a fresh dict
InitialContextEmpty(s) == EmptyDict

\* `ctx = ctx or {}`: the caller's dict when one is given and it is not empty
InitialContext(s) == IF s.given /\ DOMAIN s.dict # {} THEN s.dict ELSE EmptyDict

\* a plausible bug: every string reference of the order is resolved up front
RunBeginResolvesAll ==
    /\ pc = "compiled"
    /\ pc' = "running"
    /\ ctx' = InitialContext(seed)
    /\ aliased' = (seed.given /\ DOMAIN seed.dict # {})
    /\ runIdx' = 1
    /\ seedAtCall' = seed
    /\ LET isStr(n) == func[n].isStr IN resolved' = SelectSeq(order, isStr)
    /\ UNCHANGED <<graphVars, callerVars, compileVars, error, seed, inflight, invoked,
                   stored, failPhase, returned, executed, completed, orphan>>

\* Runtime(graph, order) and the entry of run: `ctx = ctx or {}`
RunBegin ==
    /\ pc = "compiled"
    /\ pc' = "running"
    /\ ctx' = InitialContext(seed)
    /\ aliased' = (seed.given /\ DOMAIN seed.dict # {})
    /\ runIdx' = 1
    /\ seedAtCall' = seed
    /\ UNCHANGED <<graphVars, callerVars, compileVars, error, seed, inflight, resolved, invoked,
                   stored, failPhase, returned, executed, completed, orphan>>

\* a plausible bug: the callable is started and not awaited (the iterations of
\* nodes that have a callable are shown)
NodeStartNoAwait ==
    /\ pc = "running"
    /\ runIdx <= Len(order)
    /\ LET id == order[runIdx]
           r == NodeCallable(func[id])
       IN /\ r.ok
          /\ r.call # NoCall
          /\ resolved' = IF func[id].isStr THEN Append(resolved, id) ELSE resolved
          /\ invoked' = Append(invoked, id)
          /\ executed' = Append(executed, id)
          /\ runIdx' = runIdx + 1
    /\ UNCHANGED <<graphVars, callerVars, compileVars, pc, error, failPhase, seed, aliased, ctx,
                   inflight, stored, returned, completed, orphan, seedAtCall>>

\* one loop iteration up to the await: node lookup, resolution, and _execute
\* up to the call of the function (a None callable returns None at once)
NodeStart ==
    /\ pc = "running"
    /\ inflight = NoCall
    /\ runIdx <= Len(order)
    /\ LET id == order[runIdx] IN
       IF ~InNodes(nodes, id)
       THEN /\ pc' = "failed"
            /\ error' = [type |-> "KeyError", node |-> PyNone]
            /\ failPhase' = "lookup"
            /\ UNCHANGED <<seed, aliased, ctx, runIdx, inflight, resolved, invoked,
                           stored, returned, executed>>
       ELSE LET r == NodeCallable(func[id]) IN
            /\ resolved' = IF func[id].isStr THEN Append(resolved, id) ELSE resolved
            /\ IF ~r.ok
               THEN /\ pc' = "failed"
                    /\ error' = [type |-> r.type, node |-> PyNone]
                    /\ failPhase' = "resolve"
                    /\ UNCHANGED <<seed, aliased, ctx, runIdx, inflight, invoked,
                                   stored, returned, executed>>
               ELSE IF r.call = NoCall
               THEN /\ ctx' = StoreResult(ctx, id, NoneValue)
                    /\ seed' = SeedAfter(ctx')
                    /\ stored' = Append(stored, id)
                    /\ runIdx' = runIdx + 1
                    /\ executed' = Append(executed, id)
                    /\ UNCHANGED <<pc, error, failPhase, aliased, inflight, invoked,
                                   returned>>
               ELSE /\ inflight' = r.call
                    /\ invoked' = Append(invoked, id)
                    /\ executed' = Append(executed, id)
                    /\ UNCHANGED <<pc, error, failPhase, seed, aliased, ctx, runIdx,
                                   stored, returned>>
    /\ UNCHANGED <<graphVars, callerVars, compileVars, completed, orphan, seedAtCall>>

\* a plausible bug: the loop position moves two entries on
NodeReturnSkipsNext ==
    /\ pc = "running"
    /\ inflight # NoCall
    /\ LET out == Call(inflight.body, ctx) IN
       /\ out.ok
       /\ ctx' = StoreResult(ctx, order[runIdx], out.value)
       /\ seed' = SeedAfter(ctx')
       /\ stored' = Append(stored, order[runIdx])
       /\ runIdx' = runIdx + 2
       /\ inflight' = NoCall
    /\ completed' = Append(completed, order[runIdx])
    /\ UNCHANGED <<graphVars, callerVars, compileVars, pc, error, aliased, resolved, invoked,
                   failPhase, returned, executed, orphan, seedAtCall>>

\* the awaited function returns: `result = await ...; ctx[node_id] = result`
NodeReturn ==
    /\ pc = "running"
    /\ inflight # NoCall
    /\ LET out == Call(inflight.body, ctx) IN
       /\ out.ok
       /\ ctx' = StoreResult(ctx, order[runIdx], out.value)
       /\ seed' = SeedAfter(ctx')
       /\ stored' = Append(stored, order[runIdx])
       /\ runIdx' = runIdx + 1
       /\ inflight' = NoCall
    /\ completed' = Append(completed, order[runIdx])
    /\ UNCHANGED <<graphVars, callerVars, compileVars, pc, error, aliased, resolved, invoked,
                   failPhase, returned, executed, orphan, seedAtCall>>

\* a plausible bug: the exception of a node function is caught and the loop goes on
NodeFaultSwallowed ==
    /\ pc = "running"
    /\ inflight # NoCall
    /\ ~Call(inflight.body, ctx).ok
    /\ failPhase' = "function"
    /\ runIdx' = runIdx + 1
    /\ inflight' = NoCall
    /\ completed' = Append(completed, order[runIdx])
    /\ UNCHANGED <<graphVars, callerVars, compileVars, pc, error, seed, aliased, ctx, resolved,
                   invoked, stored, returned, executed, orphan, seedAtCall>>

\* the awaited function raises: the exception leaves run as it is
NodeFault ==
    /\ pc = "running"
    /\ inflight # NoCall
    /\ LET out == Call(inflight.body, ctx) IN
       /\ ~out.ok
       /\ error' = [type |-> out.type, node |-> PyNone]
    /\ pc' = "failed"
    /\ failPhase' = "function"
    /\ inflight' = NoCall
    /\ completed' = Append(completed, order[runIdx])
    /\ UNCHANGED <<graphVars, callerVars, compileVars, seed, aliased, ctx, runIdx, resolved,
                   invoked, stored, returned, executed, orphan, seedAtCall>>

\* `return ctx`
RunFinish ==
    /\ pc = "running"
    /\ inflight = NoCall
    /\ runIdx > Len(order)
    /\ pc' = "done"
    /\ returned' = ctx
    /\ UNCHANGED <<graphVars, callerVars, compileVars, error, seed, aliased, ctx, runIdx,
                   inflight, resolved, invoked, stored, failPhase, histVars>>

\* a plausible bug: the result of the abandoned executor call is still written
WorkerFinishStores ==
    /\ orphan # NoCall
    /\ orphan' = NoCall
    /\ completed' = Append(completed, order[runIdx])
    /\ LET out == Call(orphan.body, ctx) IN
       IF out.ok
       THEN /\ ctx' = StoreResult(ctx, order[runIdx], out.value)
            /\ seed' = SeedAfter(ctx')
            /\ stored' = Append(stored, order[runIdx])
       ELSE UNCHANGED <<ctx, seed, stored>>
    /\ UNCHANGED <<graphVars, callerVars, compileVars, pc, error, aliased, runIdx, inflight,
                   resolved, invoked, failPhase, returned, executed, seedAtCall>>

\* the task running run is cancelled while it is suspended in
\* `await self._execute(func, ctx)`: CancelledError is raised at the await and
\* leaves run. A coroutine function is closed by it; a function handed to
\* run_in_executor keeps running in its thread.
Cancel ==
    /\ pc = "running"
    /\ inflight # NoCall
    /\ pc' = "cancelled"
    /\ error' = [type |-> "CancelledError", node |-> PyNone]
    /\ failPhase' = "cancel"
    /\ inflight' = NoCall
    /\ IF inflight.kind = "sync"
       THEN /\ orphan' = inflight
            /\ completed' = completed
       ELSE /\ orphan' = NoCall
            /\ completed' = Append(completed, order[runIdx])
    /\ UNCHANGED <<graphVars, callerVars, compileVars, seed, aliased, ctx, runIdx, resolved,
                   invoked, stored, returned, executed, seedAtCall>>

\* the executor thread ends a call whose awaiting run was cancelled: its
\* result (or exception) has no reader
WorkerFinish ==
    /\ orphan # NoCall
    /\ orphan' = NoCall
    /\ completed' = Append(completed, order[runIdx])
    /\ UNCHANGED <<graphVars, callerVars, compileVars, pc, error, seed, aliased, ctx, runIdx,
                   inflight, resolved, invoked, stored, failPhase, returned,
                   executed, seedAtCall>>

----------------------------------------------------------------------------
(* Specification of construction and compilation over all small graphs *)

vars == <<flowNodes, flowEdges, func, pc, error, attrs, nodes, edges, adj,
          starts, startIdx, visited, order, stack,
          seed, aliased, ctx, runIdx, inflight, resolved, invoked, stored,
          failPhase, returned, executed, completed, orphan, seedAtCall,
          validation, firstOrder, round, entry, response, fileExists, command>>

\* no editing command given yet
NoCommand == [name |-> "none", id |-> PyNone, cascade |-> FALSE, outcome |-> "none"]

\* nothing answered yet
NoResponse == [kind |-> "none", status |-> 0, body |-> ""]

InitObjects ==
    /\ pc = "new"
    /\ error = NoError
    /\ attrs = {}
    /\ nodes = <<>>
    /\ edges = <<>>
    /\ adj = <<>>
    /\ starts = <<>>
    /\ startIdx = 1
    /\ visited = {}
    /\ order = <<>>
    /\ stack = <<>>
    /\ aliased = FALSE
    /\ ctx = EmptyDict
    /\ runIdx = 1
    /\ inflight = NoCall
    /\ resolved = <<>>
    /\ invoked = <<>>
    /\ stored = <<>>
    /\ failPhase = "none"
    /\ returned = EmptyDict
    /\ executed = <<>>
    /\ completed = <<>>
    /\ orphan = NoCall
    /\ seedAtCall = NoSeed
    /\ validation = "none"
    /\ firstOrder = <<>>
    /\ round = 1
    /\ response = NoResponse
    /\ command = NoCommand

InitCompile ==
    /\ \/ /\ flowNodes \in NodeLists
          /\ flowEdges \in SeqsUpTo(EdgeUniverse, MaxEdges)
       \/ \E f \in FixtureFlows : flowNodes = f[1] /\ flowEdges = f[2]
    /\ func = [n \in {flowNodes[i] : i \in 1..Len(flowNodes)} |-> NoFunc]
    /\ seed = NoSeed
    /\ entry = "none"
    /\ fileExists = TRUE
    /\ InitObjects

NextCompile ==
    \/ Construct
    \/ CompileBegin
    \/ DfsStart
    \/ DfsDescend
    \/ DfsReturn
    \/ CompileFinish

SpecCompile == InitCompile /\ [][NextCompile]_vars

\* the graphs whose compile is followed to its end: the fixtures, and every
\* node list with up to MaxEdges source/target edges
InitCompileLive ==
    /\ \/ /\ flowNodes \in NodeLists
          /\ flowEdges \in SeqsUpTo({EdgeST(s, t) : s \in Ids, t \in Ids}, MaxEdges)
       \/ \E f \in FixtureFlows : flowNodes = f[1] /\ flowEdges = f[2]
    /\ func = [n \in {flowNodes[i] : i \in 1..Len(flowNodes)} |-> NoFunc]
    /\ seed = NoSeed
    /\ entry = "none"
    /\ fileExists = TRUE
    /\ InitObjects

\* compile is sequential code: a step that can be taken is taken
SpecCompileLive == InitCompileLive /\ [][NextCompile]_vars /\ WF_vars(NextCompile)

----------------------------------------------------------------------------
(* Specification of the whole pipeline: construct, compile, run *)

Init ==
    /\ \E f \in RunFlows : flowNodes = f[1] /\ flowEdges = f[2]
    /\ func \in [{flowNodes[i] : i \in 1..Len(flowNodes)} -> FuncRefs]
    /\ seed \in Seeds
    /\ entry = "none"
    /\ fileExists = TRUE
    /\ InitObjects

Next ==
    \/ Construct
    \/ CompileBegin
    \/ DfsStart
    \/ DfsDescend
    \/ DfsReturn
    \/ CompileFinish
    \/ RunBegin
    \/ NodeStart
    \/ NodeReturn
    \/ NodeFault
    \/ RunFinish
    \/ Cancel
    \/ WorkerFinish

Spec == Init /\ [][Next]_vars

----------------------------------------------------------------------------
(* Specification of repeated compilation: the same Graph compiled again, or a
   second Graph built from the same node and edge sequences and compiled *)

\* a second call of Compiler.compile on the same Graph object
CompileAgain ==
    /\ pc = "compiled"
    /\ round = 1
    /\ round' = 2
    /\ firstOrder' = order
    /\ pc' = "constructed"
    /\ UNCHANGED <<graphVars, compileVars, runVars, error, validation, entryVars>>

\* a second Graph(nodes, edges) from the same sequences
BuildAgain ==
    /\ pc = "compiled"
    /\ round = 1
    /\ round' = 2
    /\ firstOrder' = order
    /\ pc' = "new"
    /\ attrs' = {}
    /\ nodes' = <<>>
    /\ edges' = <<>>
    /\ adj' = <<>>
    /\ UNCHANGED <<flowNodes, flowEdges, func, compileVars, runVars, error, validation,
                   entryVars>>

NextAgain ==
    \/ Construct
    \/ CompileBegin
    \/ DfsStart
    \/ DfsDescend
    \/ DfsReturn
    \/ CompileFinish
    \/ CompileAgain
    \/ BuildAgain

SpecAgain == InitCompile /\ [][NextAgain]_vars

----------------------------------------------------------------------------
(* Specification of the entry points' first steps: validate_flow, then Graph *)

MaxMixedEdges == 1

\* edge objects with any of the four endpoint keys present or absent
MixedEdges == [source : Ids \cup {PyNone}, target : Ids \cup {PyNone},
               from : Ids \cup {PyNone}, to : Ids \cup {PyNone}]

\* `edge.get("from") or edge.get("source")`, `edge.get("to") or edge.get("target")`
ValidatedEndpoints(e) == <<PyOr(e.from, e.source), PyOr(e.to, e.target)>>

\* the edge loop of validate_flow: TRUE when no edge raises
EdgesAccepted(ns, es) ==
    \A i \in 1..Len(es) :
        LET e == es[i]
            has_from_to == e.from # PyNone /\ e.to # PyNone
            has_source_target == e.source # PyNone /\ e.target # PyNone
        IN /\ has_from_to \/ has_source_target
           /\ InNodes(ns, ValidatedEndpoints(e)[1])
           /\ InNodes(ns, ValidatedEndpoints(e)[2])

\* validate_flow on a dict with list-valued nodes and edges whose nodes carry
\* the required fields: TRUE when it returns, FALSE when it raises
ValidateFlow(ns, es) == IsInjective(ns) /\ EdgesAccepted(ns, es)

\* validate_flow(flow) as the entry points call it
Validate ==
    /\ pc = "new"
    /\ validation = "none"
    /\ validation' = IF ValidateFlow(flowNodes, flowEdges) THEN "accepted" ELSE "rejected"
    /\ UNCHANGED <<graphVars, compileVars, runVars, error, pc, firstOrder, round, entryVars>>

\* Graph(nodes, edges) behind an accepted validation
ConstructValidated ==
    /\ validation = "accepted"
    /\ Construct

InitValidate ==
    /\ flowNodes \in NodeLists
    /\ flowEdges \in SeqsUpTo(MixedEdges, MaxMixedEdges)
    /\ func = [n \in {flowNodes[i] : i \in 1..Len(flowNodes)} |-> NoFunc]
    /\ seed = NoSeed
    /\ entry = "none"
    /\ fileExists = TRUE
    /\ InitObjects

NextValidate ==
    \/ Validate
    \/ ConstructValidated
    \/ CompileBegin
    \/ DfsStart
    \/ DfsDescend
    \/ DfsReturn
    \/ CompileFinish

SpecValidate == InitValidate /\ [][NextValidate]_vars

----------------------------------------------------------------------------
(* Specification of the entry points that run a flow: the `run` command of
   cli.py, the `run` command of catwalk.py, and POST /run of catwalk_server.py.
   Each validates, builds the Graph, compiles, and then builds the Runtime in
   its own way. *)

Entries == {"cli", "catwalk", "server"}

\* node functions that succeed on any context
SucceedingRefs == {NoFunc, ConstRef}

\* a flow validate_flow rejects: an edge to an undeclared node
RejectedNodes == <<"A">>
RejectedEdges == <<EdgeST("A", "B")>>

EntryFlows == RunFlows \cup {<<RejectedNodes, RejectedEdges>>}

HttpResponse(status, text) == [kind |-> "http", status |-> status, body |-> text]
ProcessExit(code) == [kind |-> "exit", status |-> code, body |-> ""]

\* the construction of the Runtime by the entry point. catwalk.py and the
\* server call Runtime(comp.compile(g)): one argument for __init__(graph, order),
\* a TypeError. cli.py unpacks `compiled, order = comp.compile(g)`: the list
\* compile returns must have two entries (ValueError otherwise), and these two
\* node ids become the Runtime's graph and order.
EntryRuntime ==
    /\ pc = "compiled"
    /\ entry \in Entries
    /\ IF entry \in {"catwalk", "server"}
       THEN /\ pc' = "entry_failed"
            /\ error' = [type |-> "TypeError", node |-> PyNone]
       ELSE IF Len(order) # 2
       THEN /\ pc' = "entry_failed"
            /\ error' = [type |-> "ValueError", node |-> PyNone]
       ELSE /\ pc' = "entry_running"
            /\ error' = error
    /\ UNCHANGED <<graphVars, callerVars, compileVars, runVars>>

\* rt.run() of the Runtime cli.py built from two node ids: the loop walks the
\* characters of the second id and `self.graph.nodes` is read off the first, a
\* str: AttributeError in the first iteration (node ids are not empty)
EntryRun ==
    /\ pc = "entry_running"
    /\ pc' = "entry_failed"
    /\ error' = [type |-> "AttributeError", node |-> PyNone]
    /\ UNCHANGED <<graphVars, callerVars, compileVars, runVars>>

\* what the entry point does with an exception: the server answers 400 with
\* status "error", cli.py prints it and exits with 1, catwalk.py exits with 1
\* on a rejected flow and dies with the traceback (exit code 1) otherwise
EntryRespond ==
    /\ pc = "entry_failed" \/ validation = "rejected"
    /\ response = NoResponse
    /\ response' = IF entry = "server" THEN HttpResponse(400, "error") ELSE ProcessExit(1)
    /\ UNCHANGED <<graphVars, compileVars, runVars, pc, error, validation, firstOrder,
                   round, entry, fileExists, command>>

InitEntry ==
    /\ \E f \in EntryFlows : flowNodes = f[1] /\ flowEdges = f[2]
    /\ func \in [{flowNodes[i] : i \in 1..Len(flowNodes)} -> SucceedingRefs]
    /\ seed = NoSeed
    /\ entry \in Entries
    /\ fileExists = TRUE
    /\ InitObjects

NextEntry ==
    \/ Validate
    \/ ConstructValidated
    \/ CompileBegin
    \/ DfsStart
    \/ DfsDescend
    \/ DfsReturn
    \/ CompileFinish
    \/ EntryRuntime
    \/ EntryRun
    \/ EntryRespond

SpecEntry == InitEntry /\ [][NextEntry]_vars

----------------------------------------------------------------------------
(* Specification of the editing commands of cli.py on one workflow file. The
   file's flow is flowNodes (the node ids, in file order) and flowEdges. Every
   node of the file carries the four required fields, which no command
   removes; the values of type, name, func, position and data, which neither
   validate_flow nor a command reads, are not followed (func holds the same
   reference for every node). *)

MaxFileEdges == 1

\* the node ids node add is called with, and those of the files to start from
EditIds == {"A", "B"}

\* the node ids the other command lines name
ArgIds == EditIds \cup {"start", "process"}

\* an edge object of the file: absent keys read as None
FileEdge(s, t, f, o, i) == [source |-> s, target |-> t, from |-> f, to |-> o, id |-> i]

\* the values of --id of the edge commands: not given, or "e1"
EdgeIds == {PyNone, "e1"}

\* the edges of the files to start from: any of the four endpoint keys, no id
FileEdges == {FileEdge(s, t, f, o, PyNone) : s \in EditIds \cup {PyNone}, t \in EditIds \cup {PyNone},
                                             f \in EditIds \cup {PyNone}, o \in EditIds \cup {PyNone}}

EditNodeLists == {ns \in SeqsUpTo(EditIds, Cardinality(EditIds)) : IsInjective(ns)}

\* the templates of handle_init: node ids and edges
SimpleTemplate == [nodes |-> <<"start">>, edges |-> <<>>]
ReactflowTemplate ==
    [nodes |-> <<"start", "process">>,
     edges |-> <<FileEdge("start", "process", PyNone, PyNone, "e1")>>]
ComplexTemplate ==
    [nodes |-> <<"input", "validate", "process", "output">>,
     edges |-> <<FileEdge("input", "validate", PyNone, PyNone, PyNone),
                 FileEdge("validate", "process", PyNone, PyNone, PyNone),
                 FileEdge("process", "output", PyNone, PyNone, PyNone)>>]
Templates == {SimpleTemplate, ReactflowTemplate, ComplexTemplate}

FileIds == {flowNodes[i] : i \in 1..Len(flowNodes)}

Command(name, id, cascade) == [name |-> name, id |-> id, cascade |-> cascade, outcome |-> "none"]

editFrame == <<pc, error, attrs, nodes, edges, adj, compileVars, runVars, validation,
               firstOrder, round, entry, response>>

\* load_workflow: TRUE when it returns the flow, FALSE when it exits
LoadWorkflow == fileExists /\ ValidateFlow(flowNodes, flowEdges)

\* the command ended without touching the file
Leave(cmd, outcome) ==
    /\ command' = [cmd EXCEPT !.outcome = outcome]
    /\ UNCHANGED <<flowNodes, flowEdges, func, fileExists>>

\* a plausible bug: the file is opened for writing and written before validate_flow is called
SaveWorkflowWritesFirst(ns, es, fn, cmd) ==
    /\ flowNodes' = ns
    /\ flowEdges' = es
    /\ func' = fn
    /\ fileExists' = TRUE
    /\ command' = [cmd EXCEPT !.outcome = IF ValidateFlow(ns, es) THEN "saved" ELSE "save_failed"]

\* save_workflow: validate_flow first, then the write; a flow that does not
\* validate is not written and the process exits with 1
SaveWorkflow(ns, es, fn, cmd) ==
    IF ValidateFlow(ns, es)
    THEN /\ flowNodes' = ns
         /\ flowEdges' = es
         /\ func' = fn
         /\ fileExists' = TRUE
         /\ command' = [cmd EXCEPT !.outcome = "saved"]
    ELSE Leave(cmd, "save_failed")

\* handle_node_add; badJson: --position or --data is given and is not JSON
NodeAdd ==
    \E id \in EditIds, badJson \in BOOLEAN :
        LET cmd == Command("node add", PyNone, FALSE) IN
        /\ IF ~LoadWorkflow THEN Leave(cmd, "load_failed")
           ELSE IF id \in FileIds \/ badJson THEN Leave(cmd, "refused")
           ELSE SaveWorkflow(Append(flowNodes, id), flowEdges,
                             [n \in FileIds \cup {id} |-> IF n = id THEN ConstRef ELSE func[n]],
                             cmd)
        /\ UNCHANGED editFrame

\* handle_node_update
NodeUpdate ==
    \E id \in ArgIds, badJson \in BOOLEAN :
        LET cmd == Command("node update", PyNone, FALSE) IN
        /\ IF ~LoadWorkflow THEN Leave(cmd, "load_failed")
           ELSE IF id \notin FileIds \/ badJson THEN Leave(cmd, "refused")
           ELSE SaveWorkflow(flowNodes, flowEdges, func, cmd)
        /\ UNCHANGED editFrame

\* the edges handle_node_remove keeps with --cascade
NotConnected(e, id) == ~(e.source = id \/ e.target = id \/ e.from = id \/ e.to = id)

\* handle_node_remove
NodeRemove ==
    \E id \in ArgIds, cascade \in BOOLEAN :
        LET cmd == Command("node remove", id, cascade)
            keepNode(n) == n # id
            keepEdge(e) == NotConnected(e, id)
            ns == SelectSeq(flowNodes, keepNode)
            es == IF cascade THEN SelectSeq(flowEdges, keepEdge) ELSE flowEdges
        IN
        /\ IF ~LoadWorkflow THEN Leave(cmd, "load_failed")
           ELSE IF Len(ns) = Len(flowNodes) THEN Leave(cmd, "refused")
           ELSE SaveWorkflow(ns, es, [n \in FileIds \ {id} |-> func[n]], cmd)
        /\ UNCHANGED editFrame

\* handle_edge_add; badJson: --style is given and is not JSON
EdgeAdd ==
    \E s \in ArgIds, t \in ArgIds, eid \in EdgeIds, badJson \in BOOLEAN :
        LET cmd == Command("edge add", PyNone, FALSE) IN
        /\ Len(flowEdges) < MaxFileEdges
        /\ IF ~LoadWorkflow THEN Leave(cmd, "load_failed")
           ELSE IF s \notin FileIds \/ t \notin FileIds \/ badJson THEN Leave(cmd, "refused")
           ELSE SaveWorkflow(flowNodes,
                             Append(flowEdges, FileEdge(s, t, PyNone, PyNone, eid)),
                             func, cmd)
        /\ UNCHANGED editFrame

\* the arguments of edge remove: --id alone (--source and --target are not
\* read then), or --source and --target, each given or not
EdgeRemoveArgs ==
    {<<eid, PyNone, PyNone>> : eid \in EdgeIds \ {PyNone}}
        \cup {<<PyNone, s, t>> : s \in ArgIds \cup {PyNone}, t \in ArgIds \cup {PyNone}}

\* handle_edge_remove, by --id or by --source and --target
EdgeRemove ==
    \E a \in EdgeRemoveArgs :
        LET eid == a[1]
            s == a[2]
            t == a[3]
            cmd == Command("edge remove", PyNone, FALSE)
            otherId(e) == e.id # eid
            otherPair(e) == ~((e.source = s /\ e.target = t) \/ (e.from = s /\ e.to = t))
            es == IF Truthy(eid) THEN SelectSeq(flowEdges, otherId)
                  ELSE SelectSeq(flowEdges, otherPair)
        IN
        /\ IF ~LoadWorkflow THEN Leave(cmd, "load_failed")
           ELSE IF ~Truthy(eid) /\ ~(Truthy(s) /\ Truthy(t)) THEN Leave(cmd, "refused")
           ELSE IF Len(es) = Len(flowEdges) THEN Leave(cmd, "refused")
           ELSE SaveWorkflow(flowNodes, es, func, cmd)
        /\ UNCHANGED editFrame

\* handle_init
InitWorkflow ==
    \E tpl \in Templates :
        LET cmd == Command("init", PyNone, FALSE) IN
        /\ IF fileExists THEN Leave(cmd, "refused")
           ELSE SaveWorkflow(tpl.nodes, tpl.edges,
                             [n \in {tpl.nodes[i] : i \in 1..Len(tpl.nodes)} |-> ConstRef], cmd)
        /\ UNCHANGED editFrame

\* a workflow file that passes validate_flow, or no file yet
InitEdit ==
    /\ \/ /\ fileExists = TRUE
          /\ flowNodes \in EditNodeLists
          /\ flowEdges \in SeqsUpTo(FileEdges, MaxFileEdges)
          /\ ValidateFlow(flowNodes, flowEdges)
       \/ /\ fileExists = FALSE
          /\ flowNodes = <<>>
          /\ flowEdges = <<>>
    /\ func = [n \in {flowNodes[i] : i \in 1..Len(flowNodes)} |-> ConstRef]
    /\ seed = NoSeed
    /\ entry = "cli"
    /\ InitObjects

NextEdit ==
    \/ NodeAdd
    \/ NodeUpdate
    \/ NodeRemove
    \/ EdgeAdd
    \/ EdgeRemove
    \/ InitWorkflow

SpecEdit == InitEdit /\ [][NextEdit]_vars

----------------------------------------------------------------------------
(* Vocabulary of the properties: the graph as the flow document declares it *)

Declared == {flowNodes[i] : i \in 1..Len(flowNodes)}

\* the endpoints an edge names: source/target, or from/to when those are absent
SourceOf(e) == IF e.source # PyNone THEN e.source ELSE e.from
TargetOf(e) == IF e.target # PyNone THEN e.target ELSE e.to

EdgeRel == {<<SourceOf(flowEdges[i]), TargetOf(flowEdges[i])>> : i \in 1..Len(flowEdges)}

Successors(S) == {e[2] : e \in {d \in EdgeRel : d[1] \in S}}

RECURSIVE Closure(_)
Closure(S) == LET T == S \cup Successors(S) IN IF T = S THEN S ELSE Closure(T)

\* b can be reached from a along at least one edge
Reaches(a, b) == b \in Closure(Successors({a}))

HasNoIncoming(n) == \A e \in EdgeRel : e[2] # n

StartSet == {n \in Declared : HasNoIncoming(n)}

InSeq(s, x) == \E i \in 1..Len(s) : s[i] = x

IndexOf(s, x) == CHOOSE i \in 1..Len(s) : s[i] = x

AllEdgesKnown == \A e \in EdgeRel : e[1] \in Declared /\ e[2] \in Declared

CompileDone == pc \notin {"new", "construct_failed", "constructed", "compiling"}

StartsTaken == pc \notin {"new", "construct_failed", "constructed"}

----------------------------------------------------------------------------
(* Properties of Graph and Compiler *)

\* C1: once compile has returned, for every edge A->B whose two endpoints both
\* appear in the order, A is placed before B.
C1_EveryEdgeForward ==
    CompileDone =>
        \A e \in EdgeRel :
            (InSeq(order, e[1]) /\ InSeq(order, e[2]))
                => IndexOf(order, e[1]) < IndexOf(order, e[2])

\* What compile does guarantee about edges: an edge A->B that lies on no
\* directed cycle (A cannot be reached back from B) and whose two endpoints both
\* appear in the order has A placed before B.
AcyclicEdgeForward ==
    CompileDone =>
        \A e \in EdgeRel :
            (InSeq(order, e[1]) /\ InSeq(order, e[2]) /\ ~Reaches(e[2], e[1]))
                => IndexOf(order, e[1]) < IndexOf(order, e[2])

\* a compiled order that holds an edge off every cycle and an edge on a cycle
CycleInOrder ==
    /\ pc = "compiled"
    /\ \E e \in EdgeRel : InSeq(order, e[1]) /\ InSeq(order, e[2]) /\ ~Reaches(e[2], e[1])
    /\ \E e \in EdgeRel : InSeq(order, e[1]) /\ InSeq(order, e[2]) /\ Reaches(e[2], e[1])

\* C2: once compile has returned, the order holds exactly the node ids reachable
\* from some start node, each once; every other declared node is absent, and
\* compile has raised no error.
C2_OrderIsReachableSet ==
    /\ CompileDone =>
        /\ \A n \in Declared : InSeq(order, n) <=> n \in Closure(StartSet)
        /\ \A i \in 1..Len(order) : order[i] \in Declared
        /\ IsInjective(order)
    /\ pc \in {"compiling", "compiled"} => error = NoError

\* C2 witness: a compiled, non-empty order from which a declared node in a cycle is absent
C2_Witness ==
    /\ pc = "compiled"
    /\ order # <<>>
    /\ \E n \in Declared : ~InSeq(order, n) /\ Reaches(n, n)

\* C3: the diamond start->left, start->right, left->join, right->join compiles
\* to exactly [start, right, left, join].
C3_Diamond ==
    (CompileDone /\ flowNodes = DiamondNodes /\ flowEdges = DiamondEdges)
        => order = <<"start", "right", "left", "join">>

\* C3 witness: the diamond has been compiled
C3_Witness ==
    pc = "compiled" /\ flowNodes = DiamondNodes /\ flowEdges = DiamondEdges

\* C4: once compile has returned, the start nodes appear in the order in the
\* reverse of their declaration order, and with no edges the order is the node
\* declaration list read backwards.
C4_StartsReversed ==
    CompileDone =>
        /\ \A a \in StartSet, b \in StartSet :
              IndexOf(flowNodes, a) < IndexOf(flowNodes, b)
                  => /\ InSeq(order, a) /\ InSeq(order, b)
                     /\ IndexOf(order, b) < IndexOf(order, a)
        /\ flowEdges = <<>> =>
              /\ Len(order) = Len(flowNodes)
              /\ \A i \in 1..Len(order) : order[i] = flowNodes[Len(flowNodes) + 1 - i]

\* C4 witness: [A, B, C] without edges has been compiled
C4_Witness ==
    pc = "compiled" /\ flowNodes = <<"A", "B", "C">> /\ flowEdges = <<>>

\* C5: get_start_nodes returns exactly the declared node ids that no edge
\* targets (whichever naming the edge uses), in declaration order; a node
\* without edges is among them and a node with a self-loop is not.
C5_StartNodes ==
    StartsTaken =>
        /\ \A n \in Declared : InSeq(starts, n) <=> HasNoIncoming(n)
        /\ \A i \in 1..Len(starts) : starts[i] \in Declared
        /\ \A i, j \in 1..Len(starts) :
              i < j => IndexOf(flowNodes, starts[i]) < IndexOf(flowNodes, starts[j])
        /\ \A n \in Declared :
              (\A e \in EdgeRel : e[1] # n /\ e[2] # n) => InSeq(starts, n)
        /\ \A n \in Declared : <<n, n>> \in EdgeRel => ~InSeq(starts, n)

\* C5 witness: start nodes taken from a graph with an isolated node, a self-loop
\* and an edge that uses the from/to naming
C5_Witness ==
    /\ pc = "compiling"
    /\ \E n \in Declared : \A e \in EdgeRel : e[1] # n /\ e[2] # n
    /\ \E n \in Declared : <<n, n>> \in EdgeRel
    /\ \E i \in 1..Len(flowEdges) : flowEdges[i].target = PyNone /\ flowEdges[i].to \in Declared
    /\ Len(starts) >= 2

\* C6: a Graph given an edge with an undeclared endpoint fails in its
\* constructor with an error, before any compile step, and the failed object
\* has no adjacency attribute, not even for the valid edges before the bad one.
C6_BadEdgeFailsConstruction ==
    /\ (~AllEdgesKnown /\ pc # "new") =>
          /\ pc = "construct_failed"
          /\ error.type = "ValueError"
          /\ "adj" \notin attrs
          /\ adj = <<>>
          /\ starts = <<>> /\ visited = {} /\ order = <<>> /\ stack = <<>>
    /\ pc = "construct_failed" => ~AllEdgesKnown

\* C6 witness: construction failed on the second edge, the first edge being valid
C6_Witness ==
    /\ pc = "construct_failed"
    /\ Len(flowEdges) >= 2
    /\ SourceOf(flowEdges[1]) \in Declared /\ TargetOf(flowEdges[1]) \in Declared
    /\ TargetOf(flowEdges[2]) \notin Declared

----------------------------------------------------------------------------
(* Properties of Runtime *)

OrderSet == {order[i] : i \in 1..Len(order)}

\* the entries of d for the nodes at positions 1..k of the order
Upto(d, k) == [n \in {order[i] : i \in 1..k} \cap DOMAIN d |-> d[n]]

\* the value the function of a node returns when given context c (None for a no-op)
ValueFor(ref, c) ==
    LET r == NodeCallable(ref)
    IN IF r.call = NoCall THEN NoneValue ELSE Call(r.call.body, c).value

PositionsOf(s) == {IndexOf(order, s[i]) : i \in 1..Len(s)}

\* C7: a run without seed that returned has exactly the node ids of the order
\* as keys, each mapped to what its function returns on the context of the
\* nodes before it; [A, B] with A returning 1 and B returning ctx["A"] + 1
\* gives {"A": 1, "B": 2}.
C7_ContextAccumulates ==
    (pc = "done" /\ ~seed.given) =>
        /\ DOMAIN returned = OrderSet
        /\ \A k \in 1..Len(order) :
              returned[order[k]] = ValueFor(func[order[k]], Upto(returned, k - 1))
        /\ (order = <<"A", "B">> /\ func["A"] = ConstRef /\ func["B"] = ReadRef)
              => returned = DictSet(DictSet(EmptyDict, "A", PyInt(1)), "B", PyInt(2))

\* C7 witness: the run of [A, B] with A returning 1 and B returning ctx["A"] + 1 has returned
C7_Witness ==
    /\ pc = "done"
    /\ ~seed.given
    /\ order = <<"A", "B">>
    /\ func["A"] = ConstRef
    /\ func["B"] = ReadRef
    /\ returned["B"] = PyInt(2)

\* C8: in a run started with an empty context, while the function of the node
\* at position k is being invoked the context holds an entry for every node
\* before k and none for the node at k or any later node.
C8_SeesExactlyEarlierResults ==
    (inflight # NoCall /\ DOMAIN seed.dict = {}) =>
        /\ invoked[Len(invoked)] = order[runIdx]
        /\ \A j \in 1..Len(order) : order[j] \in DOMAIN ctx <=> j < runIdx

\* C8 witness: the third node of an order is being invoked
C8_Witness ==
    /\ inflight # NoCall
    /\ DOMAIN seed.dict = {}
    /\ runIdx = 3
    /\ Len(order) >= 3

\* C9: once the function of the node at position k has raised, the run has
\* halted: nothing further can happen, results are stored for the nodes before
\* k only, and no node after k is resolved or invoked.
C9_HaltsAtFault ==
    failPhase = "function" =>
        /\ pc = "failed"
        /\ ~ENABLED Next
        /\ inflight = NoCall
        /\ invoked[Len(invoked)] = order[runIdx]
        /\ stored = SubSeq(order, 1, runIdx - 1)
        /\ \A p \in PositionsOf(invoked) \cup PositionsOf(resolved) : p <= runIdx

\* C9 witness: a function raised at a node that has a node after it and one before it
C9_Witness ==
    /\ failPhase = "function"
    /\ runIdx > 1
    /\ runIdx < Len(order)

\* C10: the error run reports for a failing node carries the id of that node.
C10_ErrorCarriesNodeId ==
    (pc = "failed" /\ failPhase \in {"function", "resolve"})
        => error.node = order[runIdx]

\* the references the run cannot locate: a bare name that the globals of
\* catwalk_core lack, a dotted path without module, a dotted path without symbol
Unlocatable == {BareRef, NoModuleRef, NoSymbolRef}

\* C11: a node whose function reference is a non-empty string that cannot be
\* located makes the run fail at that node: no result is ever stored for it
\* and the loop never passes it.
C11_UnlocatableRefFails ==
    /\ \A i \in 1..Len(stored) : func[stored[i]] \notin Unlocatable
    /\ \A k \in 1..Len(order) :
          (pc \in {"running", "done"} /\ func[order[k]] \in Unlocatable) => runIdx <= k

\* the references that are no function: the attribute None and the string ""
NoOps == {NoFunc, EmptyRef}

\* C12: when the loop reaches a node whose function reference is None or "",
\* the step it takes does not fail, stores None under that node's id and moves
\* on to the next entry of the order.
C12_MissingFuncIsNoOp ==
    [][(/\ pc = "running"
        /\ inflight = NoCall
        /\ runIdx <= Len(order)
        /\ func[order[runIdx]] \in NoOps)
          => /\ pc' = "running"
             /\ error' = NoError
             /\ runIdx' = runIdx + 1
             /\ order[runIdx] \in DOMAIN ctx'
             /\ ctx'[order[runIdx]] = NoneValue
             /\ stored' = Append(stored, order[runIdx])]_vars

\* C12 witness: a run that passed a "" node and a None node has returned
C12_Witness ==
    /\ pc = "done"
    /\ Len(order) >= 3
    /\ func[order[1]] = EmptyRef
    /\ func[order[2]] = NoFunc
    /\ returned[order[1]] = NoneValue
    /\ returned[order[2]] = NoneValue

HasCallable(n) == NodeCallable(func[n]).ok /\ NodeCallable(func[n]).call # NoCall

\* C13: at every point of a run the nodes handed to _execute are a prefix of
\* the order, and in a run that returned they are the whole order, each entry
\* once and in place; the functions called are those of the entries that have
\* one, in the same sequence, coroutine functions and executor calls alike.
C13_InvocationsFollowOrder ==
    /\ Len(executed) <= Len(order)
    /\ executed = SubSeq(order, 1, Len(executed))
    /\ pc = "done" =>
          /\ executed = order
          /\ invoked = SelectSeq(order, HasCallable)
          /\ completed = invoked
          /\ stored = order

\* C13 witness: a run with a coroutine function and an executor call among three nodes has returned
C13_Witness ==
    /\ pc = "done"
    /\ Len(order) >= 3
    /\ Len(invoked) >= 3
    /\ \E i \in 1..Len(order) : func[order[i]] = AsyncRef
    /\ \E i \in 1..Len(order) : func[order[i]] = ReadRef

\* the node functions started and not ended
InFlightIds == {invoked[i] : i \in 1..Len(invoked)} \ {completed[i] : i \in 1..Len(completed)}

\* C14: at most one node function is in flight at any point of a run, and while
\* one is in flight the results of all earlier nodes, and only those, have been
\* written.
C14_OneInFlight ==
    /\ Cardinality(InFlightIds) <= 1
    /\ Len(invoked) <= Len(completed) + 1
    /\ inflight # NoCall =>
          /\ InFlightIds = {order[runIdx]}
          /\ stored = SubSeq(order, 1, runIdx - 1)
    /\ pc = "running" => Len(executed) <= Len(stored) + 1

\* C14 witness: an executor call is in flight at the third node after a coroutine function ended
C14_Witness ==
    /\ inflight # NoCall
    /\ inflight.kind = "sync"
    /\ runIdx = 3
    /\ \E i \in 1..2 : func[order[i]] = AsyncRef /\ InSeq(completed, order[i])

\* C15: once a run was cancelled at a node invocation, it starts no further
\* node and writes no further result: the stores are those of the nodes before
\* the cancelled one, also after the abandoned executor call has ended.
C15_CancelStopsRun ==
    pc = "cancelled" =>
        /\ inflight = NoCall
        /\ executed = SubSeq(order, 1, runIdx)
        /\ invoked[Len(invoked)] = order[runIdx]
        /\ stored = SubSeq(order, 1, runIdx - 1)
        /\ DOMAIN ctx = DOMAIN InitialContext(seedAtCall) \cup {stored[i] : i \in 1..Len(stored)}
        /\ ENABLED Next => orphan # NoCall

\* C15 witness: the executor call abandoned by a cancelled run has ended, with nodes left in the order
C15_Witness ==
    /\ pc = "cancelled"
    /\ runIdx < Len(order)
    /\ func[order[runIdx]] = ConstRef
    /\ orphan = NoCall
    /\ InSeq(completed, order[runIdx])

\* C16: a second compile of the same Graph, or the compile of a second Graph
\* built from the same node and edge sequences, returns the order the first
\* compile returned.
C16_CompileRepeats ==
    (round = 2 /\ pc = "compiled") => order = firstOrder

\* C16 witness: a three-node order with edges has been compiled a second time
C16_Witness ==
    /\ round = 2
    /\ pc = "compiled"
    /\ Len(order) = 3
    /\ flowEdges # <<>>

\* C17: for every edge of a flow that validate_flow accepts, the pair it
\* checked against the node ids is the pair Graph builds with, so Graph
\* construction does not fail on an accepted flow.
C17_ValidatorAgreesWithGraph ==
    validation = "accepted" =>
        /\ \A i \in 1..Len(flowEdges) :
              ValidatedEndpoints(flowEdges[i]) = EdgeEndpoints(flowEdges[i])
        /\ pc # "construct_failed"

\* an accepted flow on which Graph construction fails
AcceptedFlowFailsConstruction ==
    validation = "accepted" => pc # "construct_failed"

\* C18: when the declared graph has no directed cycle (a self-loop included),
\* the order compile returns holds every declared node id exactly once and
\* places the source of every edge before its target; the chain A->B->C
\* compiles to [A, B, C].
C18_AcyclicGivesTopologicalSort ==
    (CompileDone /\ \A n \in Declared : ~Reaches(n, n)) =>
        /\ OrderSet = Declared
        /\ Len(order) = Len(flowNodes)
        /\ \A e \in EdgeRel : IndexOf(order, e[1]) < IndexOf(order, e[2])
        /\ (flowNodes = ChainNodes /\ flowEdges = ChainEdges) => order = <<"A", "B", "C">>

\* C18 witness: the chain declared out of order has compiled to [A, B, C]
C18_Witness ==
    /\ pc = "compiled"
    /\ flowNodes = <<"C", "B", "A">>
    /\ flowEdges = <<EdgeST("B", "C"), EdgeST("A", "B")>>
    /\ order = <<"A", "B", "C">>

\* the entries of a, with those of b laid over them
Overlay(a, b) == [k \in DOMAIN a \cup DOMAIN b |-> IF k \in DOMAIN b THEN b[k] ELSE a[k]]

\* C19: a run that was given a seed context and returned has as keys the keys
\* of the seed and the node ids of the order; a seed entry under a key that is
\* no node of the order keeps its value, and every node of the order maps to
\* what its function returns on the seed overlaid with the results of the
\* nodes before it, so the first node sees the seed itself.
C19_SeedContext ==
    (pc = "done" /\ seedAtCall.given) =>
        /\ DOMAIN returned = DOMAIN seedAtCall.dict \cup OrderSet
        /\ \A k \in DOMAIN seedAtCall.dict \ OrderSet : returned[k] = seedAtCall.dict[k]
        /\ \A k \in 1..Len(order) :
              returned[order[k]] =
                  ValueFor(func[order[k]], Overlay(seedAtCall.dict, Upto(returned, k - 1)))

\* C19 witness: a run seeded with {"A": 7, "x": 7} whose first node A returns
\* ctx["A"] + 1 has returned with A overwritten by 8 and x kept
C19_Witness ==
    /\ pc = "done"
    /\ seedAtCall.given
    /\ "x" \in DOMAIN seedAtCall.dict
    /\ order[1] = "A"
    /\ func["A"] = ReadRef
    /\ returned["A"] = PyInt(8)
    /\ returned["x"] = PyInt(7)
    /\ Len(order) >= 2

\* C20: after a run has failed, the dict the caller passed as seed holds
\* exactly the entries it held when run was called.
C20_FailureLeavesSeedIntact ==
    pc = "failed" => seed.dict = seedAtCall.dict

\* a failed run has left the result of an earlier node in the caller's dict
PartialResultsInSeed ==
    /\ pc = "failed"
    /\ seedAtCall.given
    /\ \E n \in OrderSet : n \in DOMAIN seed.dict /\ n \notin DOMAIN seedAtCall.dict

\* C21: every step of a run keeps every key the context has; a step that
\* changes the context is the completion of the node at the loop position, and
\* it sets that node's key and leaves every other entry as it was.
C21_ContextOnlyGrows ==
    [][pc = "running" =>
          /\ DOMAIN ctx \subseteq DOMAIN ctx'
          /\ ctx' # ctx =>
                /\ stored' = Append(stored, order[runIdx])
                /\ DOMAIN ctx' = DOMAIN ctx \cup {order[runIdx]}
                /\ \A k \in DOMAIN ctx \ {order[runIdx]} : ctx'[k] = ctx[k]]_vars

\* C21 witness: in a seeded run two nodes have completed, one overwriting a
\* seed entry and one adding a key, and the other seed entry is as it was
C21_Witness ==
    /\ pc = "running"
    /\ seedAtCall.given
    /\ "x" \in DOMAIN seedAtCall.dict
    /\ stored = <<"A", "B">>
    /\ ctx["A"] # seedAtCall.dict["A"]
    /\ ctx["x"] = seedAtCall.dict["x"]
    /\ "B" \in DOMAIN ctx

\* C22: no reference is resolved and nothing has failed until compile has
\* returned and run has begun; a step that resolves a reference is taken by the
\* running loop, resolves the reference of the node at the loop position, and
\* finds the result of every earlier node stored and every earlier function
\* invoked; when a reference at position k cannot be resolved, the nodes before
\* k have all executed.
C22_LazyResolution ==
    /\ [](pc \in {"new", "constructed", "compiling", "compiled"}
            => resolved = <<>> /\ error = NoError)
    /\ [](failPhase = "resolve"
            => /\ stored = SubSeq(order, 1, runIdx - 1)
               /\ executed = SubSeq(order, 1, runIdx - 1)
               /\ invoked = SelectSeq(SubSeq(order, 1, runIdx - 1), HasCallable))
    /\ [][resolved' # resolved =>
              /\ pc = "running"
              /\ resolved' = Append(resolved, order[runIdx])
              /\ stored = SubSeq(order, 1, runIdx - 1)
              /\ invoked = SelectSeq(SubSeq(order, 1, runIdx - 1), HasCallable)]_vars

\* C22 witness: the run failed resolving the reference of the third node after
\* the first two nodes, themselves string references, were invoked and stored
C22_Witness ==
    /\ failPhase = "resolve"
    /\ runIdx = 3
    /\ func[order[3]] \in Unlocatable
    /\ invoked = SubSeq(order, 1, 2)
    /\ stored = SubSeq(order, 1, 2)
    /\ resolved = SubSeq(order, 1, 3)

\* a step taken while compile is active leaves the three attributes of the Graph
GraphKeptByCompile ==
    pc \in {"constructed", "compiling"}
        => /\ nodes' = nodes
           /\ edges' = edges
           /\ adj' = adj
           /\ attrs' = attrs

\* C23: no step of compile changes the node mapping, the edge sequence or the
\* adjacency mapping of the Graph, and when compile has returned they are what
\* construction made of the flow: a key for every declared node, those without
\* successors included, each with its successors in edge sequence.
C23_CompileLeavesGraph ==
    /\ [][GraphKeptByCompile]_vars
    /\ [](pc = "compiled" =>
            /\ nodes = flowNodes
            /\ edges = flowEdges
            /\ DOMAIN adj = Declared
            /\ adj = BuildAdjacency(flowNodes, flowEdges).adj)

\* C23 witness: compile has returned for a graph in which one node has two
\* successors and another has none
C23_Witness ==
    /\ pc = "compiled"
    /\ \E n \in Declared : Len(adj[n]) = 2
    /\ \E n \in Declared : adj[n] = <<>> /\ InSeq(order, n)

\* C24: for a flow that validate_flow accepted and whose node functions all
\* succeed (every flow of this specification has such functions), no entry
\* point fails between compile and the end of the run, the server answers 200
\* with status "ok", and the commands exit with 0.
C24_EntryPointsRun ==
    validation = "accepted" =>
        /\ pc # "entry_failed"
        /\ response.kind = "http" => (response.status = 200 /\ response.body = "ok")
        /\ response.kind = "exit" => response.status = 0

\* POST /run has answered 400 to an accepted flow whose functions succeed
ServerAnswersError ==
    /\ validation = "accepted"
    /\ entry = "server"
    /\ response = HttpResponse(400, "error")

\* the run command of cli.py has failed on an accepted two-node flow inside run
CliRunFails ==
    /\ validation = "accepted"
    /\ entry = "cli"
    /\ error.type = "AttributeError"
    /\ response = ProcessExit(1)

\* the run command of catwalk.py has died building the Runtime
CatwalkRunFails ==
    /\ validation = "accepted"
    /\ entry = "catwalk"
    /\ error.type = "TypeError"
    /\ response = ProcessExit(1)

FileUnchanged ==
    /\ flowNodes' = flowNodes
    /\ flowEdges' = flowEdges
    /\ func' = func
    /\ fileExists' = fileExists

\* the node `id` is an endpoint validate_flow reads off some edge of the file
HasValidatedEdge(id) ==
    \E i \in 1..Len(flowEdges) :
        id \in {ValidatedEndpoints(flowEdges[i])[1], ValidatedEndpoints(flowEdges[i])[2]}

\* an editing command that does not end in a save leaves the file as it was,
\* and node remove without --cascade of a node that validate_flow finds on an
\* edge does not end in a save
EditSavesOrLeaves ==
    /\ command'.outcome # "saved" => FileUnchanged
    /\ (/\ command'.name = "node remove"
        /\ ~command'.cascade
        /\ command'.id \in FileIds
        /\ HasValidatedEdge(command'.id))
          => (command'.outcome = "save_failed" /\ FileUnchanged)

\* C25: whenever the workflow file exists it passes validate_flow, before and
\* after every editing command (init on a missing file included); a command
\* whose result does not validate, such as node remove without --cascade of a
\* node that still has edges, leaves the file exactly as it was.
C25_FileStaysValid ==
    /\ [](fileExists => ValidateFlow(flowNodes, flowEdges))
    /\ [][EditSavesOrLeaves]_vars

\* C25 witness: node remove without --cascade has failed at save on a file
\* that holds an edge, after an earlier change to the file
C25_Witness ==
    /\ command.name = "node remove"
    /\ ~command.cascade
    /\ command.outcome = "save_failed"
    /\ flowEdges # <<>>
    /\ Len(flowNodes) >= 3

\* the node ids of the open frames of dfs, outermost first
StackNodes == [i \in 1..Len(stack) |-> stack[i].node]

\* C26: on every graph, cycles, self-loops and duplicate edges included, a
\* compile that has been called returns an order; throughout, no node id has
\* two frames of dfs or two entries in the order, and every visited node is
\* either in an open frame or appended, so each is descended into once and
\* appended once.
C26_CompileTerminates ==
    /\ [](/\ IsInjective(order)
          /\ IsInjective(StackNodes)
          /\ {order[i] : i \in 1..Len(order)} \cap {StackNodes[i] : i \in 1..Len(stack)} = {}
          /\ Len(order) + Len(stack) = Cardinality(visited))
    /\ (pc = "constructed") ~> (pc = "compiled")

\* C26 witness: compile has returned for a graph with a duplicate edge, a
\* self-loop and a two-node cycle reached from a start node
C26_Witness ==
    /\ pc = "compiled"
    /\ Len(order) = 3
    /\ \E i \in 1..Len(flowEdges), j \in 1..Len(flowEdges) : i # j /\ flowEdges[i] = flowEdges[j]
    /\ \E n \in Declared : <<n, n>> \in EdgeRel
    /\ \E a \in Declared, b \in Declared : a # b /\ <<a, b>> \in EdgeRel /\ <<b, a>> \in EdgeRel

====
